---- MODULE Spec2Model ----
(***************************************************************************)
(* Model of the podcast audio assembly pipeline:                           *)
(*   src/utils/audio.ts   decode, pcmToWav, audioBufferToPcm, mixAudio     *)
(*   src/App.tsx          the App component: state, handlers, cleanup      *)
(*                                                                         *)
(* Representation choices                                                  *)
(*  - an ArrayBuffer or a Blob's content is a sequence of 0..255; a        *)
(*    Uint8Array is the window [buffer, byteOffset, length] it opens on    *)
(*    an ArrayBuffer;                                                      *)
(*  - a base64 string is a sequence of symbols: 0..63 are the sextets of   *)
(*    the base64 alphabet, 64 is the padding '=', 65 is any character      *)
(*    outside the alphabet, 66 is an ASCII whitespace character;           *)
(*  - a float sample is a float32 [m, e], the value m * 2^e, and the       *)
(*    arithmetic of the audio graph rounds as float32 does (see "float32   *)
(*    values");                                                            *)
(*  - musicVolume is kept in hundredths (0.15 is 15), the step of the      *)
(*    volume slider;                                                       *)
(*  - a call that throws returns [ok |-> FALSE, err |-> name], a call that *)
(*    returns gives [ok |-> TRUE, val |-> value].                          *)
(***************************************************************************)
EXTENDS Integers, Sequences, FiniteSets, TLC

(***************************************************************************)
(* Bounds of the model.                                                    *)
(***************************************************************************)
MaxPcmBytes == 4        \* longest PCM byte buffer given to pcmToWav alone
MaxFrames == 4          \* longest speech (frames) in the single-call mix
MaxMusicFrames == 4     \* longest decoded music (frames) in the single-call mix
MaxConcFrames == 1      \* longest speech (frames) of two concurrent mixes
MaxUrls == 3            \* Object URLs the component may create in one run

(***************************************************************************)
(* Program constants.                                                      *)
(***************************************************************************)
finalSampleRate == 24000    \* audio.ts:98, App.tsx:69
SpeechScale == 32768        \* audio.ts:107  speechDataInt16[i] / 32768.0
NegScale == 32768           \* audio.ts:78   0x8000
PosScale == 32767           \* audio.ts:78   0x7FFF
VolumeSteps == 100          \* App.tsx:165   step="0.01"

Ok(v) == [ok |-> TRUE, val |-> v]
Throw(e) == [ok |-> FALSE, err |-> e]

Null == "null"

RECURSIVE Pow(_, _)
Pow(b, e) == IF e = 0 THEN 1 ELSE b * Pow(b, e - 1)

(***************************************************************************)
(* Integer arithmetic. A JavaScript number holds every integer below 2^53  *)
(* exactly; the products the program forms are kept in two limbs of 24     *)
(* bits, [hi, lo], so that nothing leaves TLC's integers.                  *)
(***************************************************************************)
Abs(x) == IF x < 0 THEN -x ELSE x
Sgn(x) == IF x > 0 THEN 1 ELSE IF x < 0 THEN -1 ELSE 0

\* The number of bits of n, for 0 <= n < 2^31; the exponent of a power of two.
BitLen8(n) == Cardinality({k \in 0..7 : 2^k <= n})
BitLen(n) ==
    IF n < 2^8 THEN BitLen8(n)
    ELSE IF n < 2^16 THEN 8 + BitLen8(n \div (2^8))
    ELSE IF n < 2^24 THEN 16 + BitLen8(n \div (2^16))
    ELSE 24 + BitLen8(n \div (2^24))
Log2(n) == BitLen(n) - 1

RECURSIVE GCD(_, _)
GCD(a, b) == IF b = 0 THEN a ELSE GCD(b, a % b)

\* The number of trailing zero bits of m, for 0 < |m| < 2^31.
Zeros8(m) == Cardinality({k \in 1..7 : m % (2^k) = 0})
Zeros(m) ==
    IF m % (2^8) # 0 THEN Zeros8(m)
    ELSE IF m % (2^16) # 0 THEN 8 + Zeros8(m \div (2^8))
    ELSE IF m % (2^24) # 0 THEN 16 + Zeros8(m \div (2^16))
    ELSE 24 + Zeros8(m \div (2^24))

\* Exact non-negative integers hi * 2^24 + lo.
Limb == 2^24
HalfLimb == 2^12
Big(hi, lo) == [hi |-> hi, lo |-> lo]
BigOf(n) == Big(n \div Limb, n % Limb)
BigInt(x) == x.hi * Limb + x.lo
BigBitLen(x) == IF x.hi = 0 THEN BitLen(x.lo) ELSE 24 + BitLen(x.hi)
BigLess(x, y) == x.hi < y.hi \/ (x.hi = y.hi /\ x.lo < y.lo)
BigAdd(x, y) == Big(x.hi + y.hi + (x.lo + y.lo) \div Limb, (x.lo + y.lo) % Limb)
\* x - y for x >= y
BigSub(x, y) ==
    IF x.lo >= y.lo THEN Big(x.hi - y.hi, x.lo - y.lo)
    ELSE Big(x.hi - y.hi - 1, x.lo + Limb - y.lo)
\* a * b for a, b < 2^24, from the products of their halves
BigSum(high, mid, low) ==
    Big(high + mid \div HalfLimb + (low + (mid % HalfLimb) * HalfLimb) \div Limb,
        (low + (mid % HalfLimb) * HalfLimb) % Limb)
BigMul(a, b) ==
    BigSum((a \div HalfLimb) * (b \div HalfLimb),
           (a \div HalfLimb) * (b % HalfLimb) + (a % HalfLimb) * (b \div HalfLimb),
           (a % HalfLimb) * (b % HalfLimb))
\* x * 2^s, for a product below 2^54
BigShlBits(x, r) ==
    Big(x.hi * (2^r) + x.lo \div (2^(24 - r)), (x.lo % (2^(24 - r))) * (2^r))
BigShl(x, s) ==
    IF s <= 0 THEN x
    ELSE IF s < 24 THEN BigShlBits(x, s)
    ELSE IF s < 48 THEN Big(BigInt(BigShlBits(x, s - 24)), 0)
    ELSE Big(BigInt(BigShlBits(x, s - 48)) * Limb, 0)
\* The integer part of x / 2^s
BigShr(x, s) ==
    IF s <= 0 THEN x
    ELSE IF s < 24
    THEN Big(x.hi \div (2^s), (x.hi % (2^s)) * (2^(24 - s)) + x.lo \div (2^s))
    ELSE IF s < 54 THEN BigOf(x.hi \div (2^(s - 24)))
    ELSE Big(0, 0)
\* x shifted right by s places, the last bit set when a set bit was shifted out
BigShrJam(x, s) ==
    IF s >= 54 THEN Big(0, IF x = Big(0, 0) THEN 0 ELSE 1)
    ELSE IF s <= 0 \/ BigShl(BigShr(x, s), s) = x THEN BigShr(x, s)
    ELSE Big(BigShr(x, s).hi, BigShr(x, s).lo + 1 - (BigShr(x, s).lo % 2))
\* x mod 2^s
BigLow(x, s) == BigSub(x, BigShl(BigShr(x, s), s))
\* x divided by d, for 0 < d < 128: quotient and remainder
BigDivSmall(x, d) ==
    [q |-> Big(x.hi \div d, ((x.hi % d) * Limb + x.lo) \div d),
     r |-> ((x.hi % d) * Limb + x.lo) % d]

(***************************************************************************)
(* Typed-array and DataView primitives.                                    *)
(***************************************************************************)
\* Number -> integer conversion of a typed-array store: truncation toward zero.
Trunc(num, den) == IF num >= 0 THEN num \div den ELSE -((-num) \div den)

\* An Int16Array element store of the integer v: modulo 2^16, two's complement.
ToInt16(v) == ((v + 32768) % 65536) - 32768

\* DataView.setUint8 / setUint16 / setUint32 / setInt16 with littleEndian = true:
\* the low `n` bytes of v, least significant first.
LEBytes(v, n) == [k \in 1..n |-> ((v % Pow(256, n)) \div Pow(256, k - 1)) % 256]
\* setUint32 of a non-negative v below 2^31 (TLC's integers): no reduction needed.
LEBytes32(v) == [k \in 1..4 |-> (v \div Pow(256, k - 1)) % 256]
\* setUint32 of the exact integer x: its value modulo 2^32.
LEBytes32Big(x) ==
    << x.lo % 256, (x.lo \div 256) % 256, x.lo \div 65536, x.hi % 256 >>

\* Int16Array view over a byte buffer (platform byte order, little-endian).
Int16At(bytes, i) == ToInt16(bytes[2 * i - 1] + 256 * bytes[2 * i])
Int16View(bytes) == [i \in 1..(Len(bytes) \div 2) |-> Int16At(bytes, i)]

\* Uint8Array view over an Int16Array's buffer.
RECURSIVE Int16Bytes(_)
Int16Bytes(samples) ==
    IF samples = <<>> THEN <<>>
    ELSE LEBytes(Head(samples), 2) \o Int16Bytes(Tail(samples))

(***************************************************************************)
(* decode(base64)                                       audio.ts:2-10      *)
(***************************************************************************)
\* A Uint8Array: the window of `length` bytes at `byteOffset` of an ArrayBuffer.
Uint8Array(buffer, byteOffset, length) ==
    [buffer |-> buffer, byteOffset |-> byteOffset, length |-> length]
\* new Uint8Array(len) filled with `bytes`, or new Uint8Array(arrayBuffer): the
\* window is the whole buffer.
Uint8Of(bytes) == Uint8Array(bytes, 0, Len(bytes))
\* The elements a Uint8Array shows.
Elements(u8) == SubSeq(u8.buffer, u8.byteOffset + 1, u8.byteOffset + u8.length)

\* atob: the forgiving-base64 decode. ASCII whitespace (space, TAB, LF, FF, CR)
\* is removed first; trailing padding is then removed when the length is a
\* multiple of 4; a length of 1 mod 4, or any symbol outside the alphabet,
\* throws InvalidCharacterError.
IsWhitespace(symbol) == symbol = 66
NotWhitespace(symbol) == ~IsWhitespace(symbol)
StripWhitespace(s) == SelectSeq(s, NotWhitespace)

StripPad(s) ==
    IF Len(s) % 4 = 0 /\ Len(s) >= 1 /\ s[Len(s)] = 64
    THEN IF Len(s) >= 2 /\ s[Len(s) - 1] = 64
         THEN SubSeq(s, 1, Len(s) - 2)
         ELSE SubSeq(s, 1, Len(s) - 1)
    ELSE s

RECURSIVE SextetsToBytes(_)
SextetsToBytes(s) ==
    IF Len(s) >= 4
    THEN LET v == ((s[1] * 64 + s[2]) * 64 + s[3]) * 64 + s[4]
         IN  << v \div 65536, (v \div 256) % 256, v % 256 >>
             \o SextetsToBytes(SubSeq(s, 5, Len(s)))
    ELSE IF Len(s) = 3
    THEN LET v == (s[1] * 64 + s[2]) * 64 + s[3]
         IN  << v \div 1024, (v \div 4) % 256 >>
    ELSE IF Len(s) = 2
    THEN << (s[1] * 64 + s[2]) \div 16 >>
    ELSE <<>>

atob(base64) ==
    LET s == StripPad(StripWhitespace(base64))
    IN  IF Len(s) % 4 = 1 \/ (\E i \in 1..Len(s) : s[i] > 63)
        THEN Throw("InvalidCharacterError")
        ELSE Ok(SextetsToBytes(s))

\* decode: the char codes of atob's binary string in a new Uint8Array.
decode(base64) ==
    LET binaryString == atob(base64)
    IN  IF binaryString.ok THEN Ok(Uint8Of(binaryString.val)) ELSE binaryString

(***************************************************************************)
(* pcmToWav(pcmData, sampleRate, numChannels)           audio.ts:13-56     *)
(***************************************************************************)
\* writeString: one byte per character code.
TagRIFF == << 82, 73, 70, 70 >>
TagWAVE == << 87, 65, 86, 69 >>
TagFmt == << 102, 109, 116, 32 >>
TagData == << 100, 97, 116, 97 >>

\* An encoder that counts the whole file in ChunkSize and writes the samples
\* most significant byte first.
WavBytesSwapped(pcmDataInt16, sampleRate, numChannels) ==
    LET blockAlign == numChannels * 2
        dataSize == Len(pcmDataInt16) * 2
    IN  TagRIFF \o LEBytes32(44 + dataSize) \o TagWAVE
        \o TagFmt \o LEBytes32(16) \o LEBytes(1, 2)
        \o LEBytes(numChannels, 2) \o LEBytes32(sampleRate)
        \o LEBytes32Big(BigMul(sampleRate, blockAlign)) \o LEBytes(blockAlign, 2)
        \o LEBytes(16, 2) \o TagData \o LEBytes32(dataSize)
        \o [k \in 1..dataSize |->
               LEBytes(pcmDataInt16[(k + 1) \div 2], 2)[IF k % 2 = 1 THEN 2 ELSE 1]]

\* audio.ts:16-50. byteRate = sampleRate * blockAlign is exact in the code's
\* arithmetic and is reduced modulo 2^32 by setUint32, as blockAlign and
\* numChannels are modulo 2^16 by setUint16.
WavBytes(pcmDataInt16, sampleRate, numChannels) ==
    LET format == 1
        bitDepth == 16
        bytesPerSample == bitDepth \div 8
        blockAlign == numChannels * bytesPerSample
        byteRate == BigMul(sampleRate, blockAlign)
        dataSize == Len(pcmDataInt16) * bytesPerSample
        chunkSize == 36 + dataSize
    IN  TagRIFF \o LEBytes32(chunkSize) \o TagWAVE
        \o TagFmt \o LEBytes32(16) \o LEBytes(format, 2)
        \o LEBytes(numChannels, 2) \o LEBytes32(sampleRate)
        \o LEBytes32Big(byteRate) \o LEBytes(blockAlign, 2) \o LEBytes(bitDepth, 2)
        \o TagData \o LEBytes32(dataSize)
        \o Int16Bytes(pcmDataInt16)

\* audio.ts:14: new Int16Array(pcmData.buffer) is a view of the whole
\* ArrayBuffer behind pcmData, whatever pcmData's byteOffset and length; it
\* throws RangeError when the buffer's byte length is odd.
pcmToWav(pcmData, sampleRate, numChannels) ==
    IF Len(pcmData.buffer) % 2 # 0
    THEN Throw("RangeError")
    ELSE Ok(WavBytes(Int16View(pcmData.buffer), sampleRate, numChannels))

\* Reading a WAV back: the little-endian fields of a blob (0-based offsets).
Field16(blob, off) == blob[off + 1] + 256 * blob[off + 2]
Field32(blob, off) ==
    blob[off + 1] + 256 * blob[off + 2] + 65536 * blob[off + 3]
    + 16777216 * blob[off + 4]
\* The same as an exact integer, for a field whose value may pass 2^31.
Field32Big(blob, off) ==
    Big(blob[off + 4], blob[off + 1] + 256 * blob[off + 2] + 65536 * blob[off + 3])

(***************************************************************************)
(* float32 values                                                          *)
(* The samples of an AudioBuffer, the gain of a GainNode and the output of *)
(* every node are float32. A float32 is kept as [m, e], the value          *)
(* m * 2^e with m odd and |m| < 2^24 (zero is [0, 0]); products and sums    *)
(* are formed exactly and rounded to nearest, ties to even, as the         *)
(* platform's float32 arithmetic does, down to the subnormal step 2^-149.  *)
(* The values are the finite ones: the samples of the program stay far     *)
(* below the overflow range, which is not followed.                        *)
(***************************************************************************)
\* The float32 of value m * 2^e, for |m| < 2^24.
Float(m, e) ==
    IF m = 0 THEN [m |-> 0, e |-> 0]
    ELSE [m |-> m \div (2^Zeros(m)), e |-> e + Zeros(m)]
FZero == Float(0, 0)
FOne == Float(1, 0)
FNeg(x) == [m |-> -x.m, e |-> x.e]
\* The position of the leading bit of x: 2^Top(x) <= |x| < 2^(Top(x) + 1).
Top(x) == x.e + BitLen(Abs(x.m)) - 1

\* sign * N * 2^e rounded to float32: to nearest, ties to even. N is cut s
\* places from its end, to its 24 leading bits or, in the subnormal range, at
\* 2^-149, the smallest float32 step.
RoundsUp(N, s) ==
    IF s <= 24
    THEN N.lo % (2^s) > 2^(s - 1)
         \/ (N.lo % (2^s) = 2^(s - 1) /\ BigShr(N, s).lo % 2 = 1)
    ELSE BigLess(BigShl(BigOf(1), s - 1), BigLow(N, s))
         \/ (BigLow(N, s) = BigShl(BigOf(1), s - 1) /\ BigShr(N, s).lo % 2 = 1)
RoundAt(sign, N, e, s) ==
    IF s <= 0 THEN Float(sign * N.lo, e)
    ELSE IF s > BigBitLen(N) + 1 THEN FZero
    ELSE IF RoundsUp(N, s)
    THEN Float(sign * (BigShr(N, s).lo + 1), e + s)
    ELSE Float(sign * BigShr(N, s).lo, e + s)
RoundBig(sign, N, e) ==
    RoundAt(sign, N, e,
            IF BigBitLen(N) - 24 > -149 - e THEN BigBitLen(N) - 24 ELSE -149 - e)
\* The same for a quotient d with remainder: the quotient has more than 26
\* bits, and a bit is appended to it that is set when the division left a
\* remainder.
RoundQuotient(sign, d, e) ==
    RoundBig(sign, BigAdd(BigAdd(d.q, d.q), BigOf(IF d.r = 0 THEN 0 ELSE 1)), e - 1)

\* float32 product
FMul(x, y) == RoundBig(Sgn(x.m) * Sgn(y.m), BigMul(Abs(x.m), Abs(y.m)), x.e + y.e)

\* The sign and the magnitude of sx * X + sy * Y.
SumSign(sx, X, sy, Y) == IF sx = sy \/ BigLess(Y, X) THEN sx ELSE sy
SumMag(sx, X, sy, Y) ==
    IF sx = sy THEN BigAdd(X, Y)
    ELSE IF BigLess(Y, X) THEN BigSub(X, Y) ELSE BigSub(Y, X)

\* float32 sum. An operand whose leading bit lies more than 25 places below
\* the other's is less than half the gap between the other and its
\* neighbours, and the sum rounds to the other; otherwise the operands are
\* aligned on the smaller exponent e and added exactly.
FAddAt(x, y, e) ==
    RoundBig(SumSign(Sgn(x.m), BigShl(BigOf(Abs(x.m)), x.e - e),
                     Sgn(y.m), BigShl(BigOf(Abs(y.m)), y.e - e)),
             SumMag(Sgn(x.m), BigShl(BigOf(Abs(x.m)), x.e - e),
                    Sgn(y.m), BigShl(BigOf(Abs(y.m)), y.e - e)), e)
FAdd(x, y) ==
    IF x.m = 0 THEN y
    ELSE IF y.m = 0 THEN x
    ELSE IF Top(x) - Top(y) > 25 THEN x
    ELSE IF Top(y) - Top(x) > 25 THEN y
    ELSE FAddAt(x, y, IF x.e < y.e THEN x.e ELSE y.e)

FLess(x, y) == FAdd(x, FNeg(y)).m < 0
\* Math.min, Math.max
Min2(a, b) == IF FLess(a, b) THEN a ELSE b
Max2(a, b) == IF FLess(b, a) THEN a ELSE b

\* The float32 nearest to num / den, for 0 <= num < 128 and 0 < den < 128.
FromRatio(num, den) ==
    IF num = 0 THEN FZero
    ELSE RoundQuotient(1, BigDivSmall(BigShl(BigOf(num), 40), den), -40)

\* The float32 nearest to (a * (den - f) + b * f) / den, for 0 < f < den < 128:
\* the two products are aligned on one exponent e, at most 48 places below the
\* leading bit of the larger, added, and the sum N, brought to 50 bits, is
\* divided; the value is rounded once. A zero operand takes the exponent of
\* the other.
LerpDivide(sign, N, den, e, k) ==
    IF N = Big(0, 0) THEN FZero
    ELSE RoundQuotient(sign, BigDivSmall(BigShl(N, k), den), e - k)
LerpSum(sa, X, sb, Y, den, e) ==
    LerpDivide(SumSign(sa, X, sb, Y), SumMag(sa, X, sb, Y), den, e,
               50 - BigBitLen(SumMag(sa, X, sb, Y)))
LerpAt(sa, pa, ea, sb, pb, eb, den, e) ==
    LerpSum(sa, IF ea >= e THEN BigShl(pa, ea - e) ELSE BigShrJam(pa, e - ea),
            sb, IF eb >= e THEN BigShl(pb, eb - e) ELSE BigShrJam(pb, e - eb),
            den, e)
LerpOf(sa, pa, ea, sb, pb, eb, den) ==
    LerpAt(sa, pa, ea, sb, pb, eb, den,
           IF ea + BigBitLen(pa) - 48 < eb /\ eb + BigBitLen(pb) - 48 < ea
           THEN (IF ea < eb THEN ea ELSE eb)
           ELSE IF ea + BigBitLen(pa) > eb + BigBitLen(pb)
           THEN ea + BigBitLen(pa) - 48 ELSE eb + BigBitLen(pb) - 48)
Lerp(a, b, f, den) ==
    IF a.m = 0 /\ b.m = 0 THEN FZero
    ELSE LerpOf(Sgn(a.m), BigOf(Abs(a.m) * (den - f)), IF a.m = 0 THEN b.e ELSE a.e,
                Sgn(b.m), BigOf(Abs(b.m) * f), IF b.m = 0 THEN a.e ELSE b.e, den)

\* The integer part of |x| * k, for 0 < k < 2^24: the product is exact in the
\* double arithmetic of the code.
TruncTimes(x, k) ==
    BigInt(IF x.e >= 0 THEN BigShl(BigMul(Abs(x.m), k), x.e)
           ELSE BigShr(BigMul(Abs(x.m), k), -x.e))
\* |x| * k rounded to the nearest integer.
RoundShift(P, e) ==
    IF e >= 0 THEN BigInt(BigShl(P, e))
    ELSE IF -e > 48 THEN 0
    ELSE BigInt(BigShr(BigAdd(P, BigShl(BigOf(1), -e - 1)), -e))
RoundTimes(x, k) == RoundShift(BigMul(Abs(x.m), k), x.e)

(***************************************************************************)
(* Sample conversion                                                       *)
(***************************************************************************)
\* mixAudio, audio.ts:106-108: speechChannelData[i] = speechDataInt16[i] / 32768.0
pcm16ToFloat(s) == Float(s, -Log2(SpeechScale))

\* audio.ts:78: pcmData[i] = sample < 0 ? sample * 0x8000 : sample * 0x7FFF;
\* the Int16Array store truncates toward zero.
StoreInt16(sample) ==
    ToInt16(IF sample.m < 0 THEN -TruncTimes(sample, NegScale)
            ELSE TruncTimes(sample, PosScale))
\* A store that rounds to the nearest integer (Math.round).
StoreInt16Rounded(sample) ==
    ToInt16(IF sample.m < 0 THEN -RoundTimes(sample, NegScale)
            ELSE RoundTimes(sample, PosScale))

\* A conversion that stores sample * scale without the clamp of line 77.
floatToPcm16Unclamped(f) == StoreInt16(f)

\* A conversion that rounds sample * scale to the nearest integer where the
\* code lets the Int16Array store truncate.
floatToPcm16Rounded(f) == StoreInt16Rounded(Max2(FNeg(FOne), Min2(FOne, f)))

\* audioBufferToPcm, audio.ts:75-79:
\*   sample = Math.max(-1, Math.min(1, interleaved[i]));
\*   pcmData[i] = sample < 0 ? sample * 0x8000 : sample * 0x7FFF;
floatToPcm16(f) == StoreInt16(Max2(FNeg(FOne), Min2(FOne, f)))

\* An AudioBuffer: its sample rate and its channels, each a sequence of samples.
AudioBuffer(sampleRate, channels) == [sampleRate |-> sampleRate, channels |-> channels]
NoBuffer == AudioBuffer(0, <<>>)

\* audioBufferToPcm, audio.ts:64-73: interleaved[i * numChannels + channel].
Interleave(audioBuffer) ==
    LET numChannels == Len(audioBuffer.channels)
        length == Len(audioBuffer.channels[1])
    IN  [k \in 1..(length * numChannels) |->
            audioBuffer.channels[((k - 1) % numChannels) + 1][((k - 1) \div numChannels) + 1]]

\* audio.ts:75-81: the converted samples, returned as new Uint8Array(pcmData.buffer).
audioBufferToPcm(audioBuffer) ==
    LET interleaved == Interleave(audioBuffer)
    IN  Uint8Of(Int16Bytes([i \in 1..Len(interleaved) |-> floatToPcm16(interleaved[i])]))

(***************************************************************************)
(* The mixing graph of mixAudio                         audio.ts:118-144   *)
(***************************************************************************)
\* audio.ts:97: new AudioContext() runs at the sample rate of the output
\* device; decodeAudioData returns its buffer at that rate.
ContextRates == {16000, finalSampleRate, 44100, 48000}

\* A source node in the 24000 Hz rendering context advances its playhead by
\* sampleRate / finalSampleRate = RateNum / RateDen buffer frames per output
\* frame.
RateNum(sampleRate) == sampleRate \div GCD(sampleRate, finalSampleRate)
RateDen(sampleRate) == finalSampleRate \div GCD(sampleRate, finalSampleRate)

\* Whether the playhead of a buffer at sampleRate is on a whole frame at
\* output frame i (counted from 1).
WholeAt(sampleRate, i) == ((i - 1) * RateNum(sampleRate)) % RateDen(sampleRate) = 0

\* The frame of a channel at whole playhead position k; position Len(channelData)
\* is frame 0 again for a looping node and silence for a node that has ended.
FrameAt(channelData, loop, k) ==
    IF k < Len(channelData) THEN channelData[k + 1]
    ELSE IF loop THEN channelData[1] ELSE FZero

\* The playback signal at a position between frames a and b, f / den of the
\* way from a to b. The program fixes neither the resampler nor its
\* arithmetic: the user agent computes the value from the frames of the
\* buffer around the position, so that a silent buffer plays silent, and the
\* value need not lie between a and b. Followed here: the linear
\* interpolation of a and b rounded once, and the value 2b - a that lies
\* outside them.
SuppliedKinds == {"linear", "outside"}
Interpolate(a, b, f, den, kind) ==
    CASE kind = "linear" -> Lerp(a, b, f, den)
      [] kind = "outside" -> FAdd(FAdd(b, b), FNeg(a))

\* What the user agent may supply for one rendering of `frames` output frames
\* from a buffer at sampleRate: a kind for every output frame whose position
\* is not a whole frame.
SuppliedChoices(sampleRate, frames) ==
    {supplied \in [1..frames -> SuppliedKinds \cup {"none"}] :
        \A i \in 1..frames : (supplied[i] = "none") = WholeAt(sampleRate, i)}
NoneSupplied(frames) == [i \in 1..frames |-> "none"]

\* An AudioBufferSourceNode started at 0 on one channel of a buffer of rate
\* sampleRate, for `frames` output frames of the 24000 Hz rendering context:
\* at output frame i the playhead has travelled i * sampleRate / 24000 buffer
\* frames; with loop set it wraps at the end of the buffer, otherwise the node
\* is silent from there on. On a whole frame the output is that frame, and
\* between frames the value of kind supplied[i] from the frames around.
Play(channelData, sampleRate, loop, supplied, frames) ==
    LET num == RateNum(sampleRate)
        den == RateDen(sampleRate)
        end == Len(channelData) * den
    IN  [i \in 1..frames |->
            LET travelled == (i - 1) * num
                position == IF loop THEN travelled % end ELSE travelled
            IN  IF position >= end THEN FZero
                ELSE IF position % den = 0
                THEN FrameAt(channelData, loop, position \div den)
                ELSE Interpolate(FrameAt(channelData, loop, position \div den),
                                 FrameAt(channelData, loop, position \div den + 1),
                                 position % den, den, supplied[i])]

\* The input of the stereo destination (channelCount 2, "explicit", "speakers")
\* mixes a connection of K channels into its channel c: mono feeds both
\* channels, stereo channel for channel, quad gives 0.5 * (L + SL) and
\* 0.5 * (R + SR), and a layout that is none of the speaker layouts is mixed
\* "discrete": its first two channels, the others dropped. (5.1 mixes with the
\* coefficient sqrt(1/2), whose rounding is the user agent's: the decoded
\* buffers of the model have no six-channel layout.)
ChannelFor(channels, c) ==
    [i \in 1..Len(channels[1]) |->
        CASE Len(channels) = 1 -> channels[1][i]
          [] Len(channels) = 2 -> channels[c][i]
          [] Len(channels) = 4 ->
                 FMul(Float(1, -1), FAdd(channels[c][i], channels[c + 2][i]))
          [] Len(channels) \in {3, 5} \/ Len(channels) > 6 -> channels[c][i]]

\* GainNode with gain.setValueAtTime(musicVolume, 0): the AudioParam holds the
\* float32 nearest to musicVolume (kept in hundredths), and each sample is
\* multiplied by it in float32.
GainValue(musicVolume) == FromRatio(musicVolume, VolumeSteps)
Gain(sample, musicVolume) == FMul(sample, GainValue(musicVolume))

\* musicSource.loop left false.
MusicLoopOff == FALSE
\* audio.ts:131  musicSource.loop = true
MusicLoop == TRUE

\* The output of a source node playing audioBuffer: one sequence per channel.
SourceNode(audioBuffer, loop, supplied, frames) ==
    [k \in 1..Len(audioBuffer.channels) |->
        Play(audioBuffer.channels[k], audioBuffer.sampleRate, loop, supplied, frames)]
\* The output of the gain node on that input.
GainNode(input, musicVolume) ==
    [k \in 1..Len(input) |->
        [i \in 1..Len(input[k]) |-> Gain(input[k][i], musicVolume)]]
\* The destination sums its two connections, each mixed to stereo, in float32.
Destination(speechOut, gainOut) ==
    AudioBuffer(finalSampleRate,
        [c \in 1..2 |->
            [i \in 1..Len(speechOut[1]) |->
                FAdd(ChannelFor(speechOut, c)[i], ChannelFor(gainOut, c)[i])]])

\* startRendering of the graph speech -> destination, music -> gain -> destination
\* on OfflineAudioContext(2, speechAudioBuffer.length, finalSampleRate).
Render(speechAudioBuffer, musicAudioBuffer, musicVolume, supplied) ==
    Destination(
        SourceNode(speechAudioBuffer, FALSE,
                   NoneSupplied(Len(speechAudioBuffer.channels[1])),
                   Len(speechAudioBuffer.channels[1])),
        GainNode(SourceNode(musicAudioBuffer, MusicLoop, supplied,
                            Len(speechAudioBuffer.channels[1])),
                 musicVolume))

\* audio.ts:101-108: the mono speech AudioBuffer, one frame per 16-bit word of
\* the whole ArrayBuffer behind speechPcmData.
SpeechBuffer(speechPcmData) ==
    LET speechDataInt16 == Int16View(speechPcmData.buffer)
    IN  AudioBuffer(finalSampleRate,
            << [i \in 1..Len(speechDataInt16) |-> pcm16ToFloat(speechDataInt16[i])] >>)

\* audio.ts:149-150: the WAV of a rendered buffer.
MixedWav(mixedAudioBuffer) ==
    pcmToWav(audioBufferToPcm(mixedAudioBuffer), finalSampleRate,
             Len(mixedAudioBuffer.channels))

(***************************************************************************)
(* State                                                                   *)
(***************************************************************************)
VARIABLES
    \* App component state (App.tsx:9-19); a null state value is Null, an
    \* Object URL is the decimal string of its serial number.
    mounted, isLoading, error, audioUrl, backgroundMusic, musicVolume,
    customMusicUrl, statusMessage,
    \* the browser's Object URL registry: URLs created and not yet revoked
    liveUrls, urlCount,
    \* the values the unmount cleanup closure captured (App.tsx:21-27)
    cleanup,
    \* the running handleGenerateAudio invocation: its position and its locals
    hpc, h,
    \* the mixAudio invocations: position, arguments and result of each call,
    \* and the AudioBuffers each call created
    mix, bufs,
    \* inputs and outputs of the functions exercised on their own
    enc, conv, clip

appVars == << mounted, isLoading, error, audioUrl, backgroundMusic, musicVolume,
              customMusicUrl, statusMessage, liveUrls, urlCount, cleanup, hpc, h >>
mixVars == << mix, bufs >>
fnVars == << enc, conv, clip >>
vars == << appVars, mixVars, fnVars >>

CallIds == {1, 2}

SeqsUpTo(S, n) == UNION {[1..k -> S] : k \in 1..n}

(***************************************************************************)
(* pcmToWav, audioBufferToPcm's conversion and the speech conversion       *)
(* exercised on their own                                                  *)
(***************************************************************************)
ByteSamples == {0, 1, 128, 255}
PcmBuffers == {<<>>} \cup SeqsUpTo(ByteSamples, MaxPcmBytes)
\* The arrays pcmToWav is given: decode (audio.ts:5) and audioBufferToPcm
\* (audio.ts:81) each return an array that is the whole of its buffer.
PcmArrays == {Uint8Of(buffer) : buffer \in PcmBuffers}
WavRates == {1, finalSampleRate, 48000, 192000}
WavChannels == {1, 2, 32767, 32768}

EncIdle == [pcmData |-> Uint8Of(<<>>), sampleRate |-> 1, numChannels |-> 1,
            done |-> FALSE, out |-> Throw("pending")]
ConvIdle == [s |-> 0, done |-> FALSE, float |-> FZero, out |-> 0]
ClipIdle == [speech |-> 0, music |-> 0, musicVolume |-> 0,
             done |-> FALSE, mixed |-> FZero, out |-> 0]

\* pcmToWav(pcmData, sampleRate, numChannels)
EncodeWav ==
    /\ ~enc.done
    /\ enc' = [enc EXCEPT !.done = TRUE,
                          !.out = pcmToWav(enc.pcmData, enc.sampleRate, enc.numChannels)]
    /\ UNCHANGED << appVars, mixVars, conv, clip >>

\* One speech sample through audio.ts:107 and back through audio.ts:77-78.
RoundTrip ==
    /\ ~conv.done
    /\ conv' = [conv EXCEPT !.done = TRUE,
                            !.float = pcm16ToFloat(conv.s),
                            !.out = floatToPcm16(pcm16ToFloat(conv.s))]
    /\ UNCHANGED << appVars, mixVars, enc, clip >>

Int16Range == (-32768)..32767

\* One output sample of the mix: speech + gain * music, then audio.ts:77-78.
\* The speech is a 16-bit sample, the music a float32 given in 65536ths.
ClipSpeech == {-32768, -32767, -16384, -1, 0, 1, 16384, 32766, 32767}
ClipMusic == {-65536, -65500, -63000, -3, -1, 0, 1, 3, 21854, 32801, 65500, 65536}
MusicGrid == 16
MaxVolume == 50    \* App.tsx:163  max="0.5"
Volumes == 0..MaxVolume

MixSample ==
    /\ ~clip.done
    /\ LET mixed ==
               Render(AudioBuffer(finalSampleRate, << << pcm16ToFloat(clip.speech) >> >>),
                      AudioBuffer(finalSampleRate,
                                  << << Float(clip.music, -MusicGrid) >> >>),
                      clip.musicVolume, NoneSupplied(1)).channels[1][1]
       IN  clip' = [clip EXCEPT !.done = TRUE, !.mixed = mixed,
                                !.out = floatToPcm16(mixed)]
    /\ UNCHANGED << appVars, mixVars, enc, conv >>

(***************************************************************************)
(* mixAudio(speechPcmData, musicUrl, musicVolume)       audio.ts:92-151    *)
(* One action per stretch of code between two awaits; the outcome of the   *)
(* awaited promise is the action's input.                                  *)
(***************************************************************************)
\* sampleRate is the rate of the call's AudioContext, supplied what the user
\* agent chose for the music between frames in the rendering. urlLive is whether
\* an Object URL given as musicUrl was live when fetch was called. fault,
\* served and overlap are history: the failure the environment answered to
\* this call, the decoded music it was given, and whether the other call was
\* in flight when this one started.
MixIdle == [pc |-> "idle", speechPcmData |-> Uint8Of(<<>>), musicUrl |-> Null,
            musicVolume |-> 0, tempContext |-> "none", sampleRate |-> 0,
            supplied |-> <<>>, urlLive |-> FALSE,
            result |-> Throw("pending"),
            fault |-> "", served |-> NoBuffer, overlap |-> FALSE]
BufIdle == [speech |-> NoBuffer, music |-> NoBuffer, mixed |-> NoBuffer]

ObjectUrls == {ToString(n) : n \in 1..MaxUrls}

\* All invocations keeping their AudioBuffers in one module-level place.
BufferShared(c) == 1
\* The AudioBuffers of invocation c: every invocation creates its own
\* (createBuffer, decodeAudioData and startRendering results held in consts).
BufferOf(c) == c

\* What a fetch of musicUrl may answer: an Object URL is resolved when fetch
\* is called, so the fetch resolves when the URL was live then, whatever is
\* revoked afterwards, and is a network error when it was not; a remote track
\* may resolve OK, resolve with a non-OK status, or reject.
FetchOutcomes(musicUrl, urlLive) ==
    IF musicUrl \in ObjectUrls
    THEN IF urlLive THEN {"ok"} ELSE {"reject"}
    ELSE {"ok", "notok", "reject"}

MixReject(c, e) ==
    mix' = [mix EXCEPT ![c].pc = "rejected", ![c].result = Throw(e), ![c].fault = e]

InFlight(c) == mix[c].pc \notin {"idle", "resolved", "rejected"}

\* audio.ts:97-111: the call up to the first await.
MixEnter(c, speechPcmData, musicUrl, volume, sampleRate) ==
    LET call == [pc |-> "awaitFetch", speechPcmData |-> speechPcmData,
                 musicUrl |-> musicUrl, musicVolume |-> volume,
                 tempContext |-> "running", sampleRate |-> sampleRate,
                 supplied |-> <<>>,
                 urlLive |-> musicUrl \in liveUrls,
                 result |-> Throw("pending"),
                 fault |-> "", served |-> NoBuffer,
                 overlap |-> \E d \in CallIds \ {c} : InFlight(d)]
    IN  IF Len(speechPcmData.buffer) % 2 # 0
        THEN /\ mix' = [mix EXCEPT ![c] = [call EXCEPT !.pc = "rejected",
                                                      !.fault = "RangeError",
                                                      !.result = Throw("RangeError")]]
             /\ UNCHANGED bufs
        ELSE IF Len(speechPcmData.buffer) = 0
        THEN /\ mix' = [mix EXCEPT ![c] = [call EXCEPT !.pc = "rejected",
                                                      !.fault = "NotSupportedError",
                                                      !.result = Throw("NotSupportedError")]]
             /\ UNCHANGED bufs
        ELSE /\ mix' = [mix EXCEPT ![c] = call]
             /\ bufs' = [bufs EXCEPT ![BufferOf(c)].speech = SpeechBuffer(speechPcmData)]

\* A caller other than the App invoking mixAudio.
MixInvoke(c, speeches, urls, volumes, sampleRates) ==
    /\ mix[c].pc = "idle"
    /\ \E speechPcmData \in speeches, musicUrl \in urls, volume \in volumes,
          sampleRate \in sampleRates :
          MixEnter(c, speechPcmData, musicUrl, volume, sampleRate)
    /\ UNCHANGED << appVars, fnVars >>

\* A fetch that answers a non-OK status and is not checked.
MixFetchSettlesUnchecked(c) ==
    /\ mix[c].pc = "awaitFetch"
    /\ \E outcome \in FetchOutcomes(mix[c].musicUrl, mix[c].urlLive) :
          IF outcome = "reject"
          THEN MixReject(c, "Failed to fetch")
          ELSE IF outcome = "notok"
          THEN mix' = [mix EXCEPT ![c].pc = "awaitBody",
                                  ![c].fault = "Failed to fetch music file"]
          ELSE mix' = [mix EXCEPT ![c].pc = "awaitBody"]
    /\ UNCHANGED << bufs, appVars, fnVars >>

\* audio.ts:111-115: fetch settles; a non-OK response throws.
MixFetchSettles(c) ==
    /\ mix[c].pc = "awaitFetch"
    /\ \E outcome \in FetchOutcomes(mix[c].musicUrl, mix[c].urlLive) :
          IF outcome = "reject"
          THEN MixReject(c, "Failed to fetch")
          ELSE IF outcome = "notok"
          THEN MixReject(c, "Failed to fetch music file")
          ELSE mix' = [mix EXCEPT ![c].pc = "awaitBody"]
    /\ UNCHANGED << bufs, appVars, fnVars >>

\* audio.ts:115-116: response.arrayBuffer() settles; decodeAudioData is called.
MixBodySettles(c) ==
    /\ mix[c].pc = "awaitBody"
    /\ \E outcome \in {"resolve", "reject"} :
          IF outcome = "reject"
          THEN MixReject(c, "Failed to read body")
          ELSE mix' = [mix EXCEPT ![c].pc = "awaitDecode"]
    /\ UNCHANGED << bufs, appVars, fnVars >>

\* audio.ts:116-144: decodeAudioData settles, with the decoded channels in a
\* buffer at the rate of tempContext; the graph is built and startRendering is
\* called.
MixDecodeSettles(c, musics) ==
    /\ mix[c].pc = "awaitDecode"
    /\ \/ /\ MixReject(c, "EncodingError")
          /\ UNCHANGED bufs
       \/ \E channels \in musics :
             LET musicAudioBuffer == AudioBuffer(mix[c].sampleRate, channels)
             IN
             /\ bufs' = [bufs EXCEPT ![BufferOf(c)].music = musicAudioBuffer]
             /\ mix' = [mix EXCEPT ![c].pc = "awaitRender",
                                   ![c].served = musicAudioBuffer]
    /\ UNCHANGED << appVars, fnVars >>

\* audio.ts:144-146: startRendering settles, the music between frames being
\* what the user agent supplied; tempContext.close() is called.
MixRenderSettles(c) ==
    /\ mix[c].pc = "awaitRender"
    /\ \/ /\ MixReject(c, "RenderError")
          /\ UNCHANGED bufs
       \/ \E supplied \in SuppliedChoices(bufs[BufferOf(c)].music.sampleRate,
                                          Len(bufs[BufferOf(c)].speech.channels[1])) :
             /\ bufs' = [bufs EXCEPT ![BufferOf(c)].mixed =
                            Render(bufs[BufferOf(c)].speech, bufs[BufferOf(c)].music,
                                   mix[c].musicVolume, supplied)]
             /\ mix' = [mix EXCEPT ![c].pc = "awaitClose", ![c].supplied = supplied]
    /\ UNCHANGED << appVars, fnVars >>

\* audio.ts:146-150: close settles; the mixed buffer is converted and encoded.
MixCloseSettles(c) ==
    /\ mix[c].pc = "awaitClose"
    /\ mix' = [mix EXCEPT ![c].pc = "resolved", ![c].tempContext = "closed",
                          ![c].result = MixedWav(bufs[BufferOf(c)].mixed)]
    /\ UNCHANGED << bufs, appVars, fnVars >>

\* The channels of the decoded music a call may receive.
\* The channels of every length up to n run through the samples in turn, from
\* each of them.
Tunes(samples, n) ==
    {[i \in 1..M |-> samples[((i - 1 + from) % Len(samples)) + 1]] :
        M \in 1..n, from \in 0..(Len(samples) - 1)}
MonoMusics(samples, n) == {<< m >> : m \in Tunes(samples, n)}
StereoMusics(samples, n) ==
    {<< m, [i \in 1..Len(m) |-> FNeg(m[i])] >> : m \in Tunes(samples, n)}
QuadMusics(samples, n) ==
    {<< m, [i \in 1..Len(m) |-> FNeg(m[i])], [i \in 1..Len(m) |-> m[Len(m) + 1 - i]],
        [i \in 1..Len(m) |-> FAdd(m[i], Float(1, -MusicGrid))] >> :
        m \in Tunes(samples, n)}

(***************************************************************************)
(* The speech provider                      geminiService.ts:27-66         *)
(***************************************************************************)
\* inlineData.data is the base64 text of the PCM bytes.
RECURSIVE btoa(_)
btoa(bytes) ==
    IF Len(bytes) >= 3
    THEN LET v == bytes[1] * 65536 + bytes[2] * 256 + bytes[3]
         IN  << v \div 262144, (v \div 4096) % 64, (v \div 64) % 64, v % 64 >>
             \o btoa(SubSeq(bytes, 4, Len(bytes)))
    ELSE IF Len(bytes) = 2
    THEN LET v == (bytes[1] * 256 + bytes[2]) * 4
         IN  << v \div 4096, (v \div 64) % 64, v % 64, 64 >>
    ELSE IF Len(bytes) = 1
    THEN LET v == bytes[1] * 16
         IN  << v \div 64, v % 64, 64, 64 >>
    ELSE <<>>

\* What the provider may answer with: well-formed payloads of one and two
\* samples, one of them broken into lines, a payload of an odd number of
\* bytes, and two malformed texts.
SpeechPayloads ==
    { btoa(Int16Bytes(<< 32767 >>)), btoa(Int16Bytes(<< -32768, 16384 >>)),
      SubSeq(btoa(Int16Bytes(<< -2 >>)), 1, 2) \o << 66 >>
          \o SubSeq(btoa(Int16Bytes(<< -2 >>)), 3, 4) \o << 66 >>,
      btoa(<< 7 >>), << 65, 0, 0, 0 >>, << 0, 0, 0, 0, 0 >> }

(***************************************************************************)
(* The App component                                    App.tsx:8-82       *)
(***************************************************************************)
\* constants.ts is not among the sources: the first track is the sentinel
\* 'none' (App.tsx:16, 62, 155), the others are URLs of remote tracks.
BACKGROUND_MUSIC_TRACKS == << "none", "track1" >>
Tracks == {BACKGROUND_MUSIC_TRACKS[i] : i \in 1..Len(BACKGROUND_MUSIC_TRACKS)}
MusicOptions == Tracks \cup {"custom"}
DefaultVolume == 15     \* App.tsx:17  useState<number>(0.15)
AppVolumes == {0, DefaultVolume, MaxVolume}

HIdle == [backgroundMusic |-> "none", customMusicUrl |-> Null, musicVolume |-> 0,
          revoked |-> Null, pcmData |-> Uint8Of(<<>>), calls |-> <<>>,
          mixArgs |-> << Null, 0 >>, wavArgs |-> << 0, 0 >>,
          blob |-> <<>>, errors |-> 0, fault |-> "", outcome |-> "none"]

uiVars == << mounted, backgroundMusic, musicVolume, customMusicUrl, cleanup >>

\* URL.revokeObjectURL(url), guarded by `if (url)`.
Revoke(urls, url) == urls \ {url}

\* App.tsx:119-129: the music <select> changes to another option.
SelectMusic ==
    /\ mounted /\ ~isLoading
    /\ \E value \in MusicOptions \ {backgroundMusic} :
          /\ backgroundMusic' = value
          /\ IF value # "custom" /\ customMusicUrl # Null
             THEN /\ liveUrls' = Revoke(liveUrls, customMusicUrl)
                  /\ customMusicUrl' = Null
             ELSE UNCHANGED << liveUrls, customMusicUrl >>
    /\ UNCHANGED << mounted, isLoading, error, audioUrl, musicVolume, statusMessage,
                    urlCount, cleanup, hpc, h, mixVars, fnVars >>

\* App.tsx:155-171: the volume slider, rendered unless the selection is 'none'.
SetVolume ==
    /\ mounted /\ ~isLoading /\ backgroundMusic # "none"
    /\ \E value \in AppVolumes \ {musicVolume} : musicVolume' = value
    /\ UNCHANGED << mounted, isLoading, error, audioUrl, backgroundMusic,
                    customMusicUrl, statusMessage, liveUrls, urlCount, cleanup,
                    hpc, h, mixVars, fnVars >>

\* App.tsx:33-41, 139-153: a file is chosen in the upload input, rendered
\* when the selection is 'custom'.
handleMusicUpload ==
    /\ mounted /\ ~isLoading /\ backgroundMusic = "custom"
    /\ urlCount < MaxUrls
    /\ LET url == ToString(urlCount + 1)
       IN  /\ liveUrls' = Revoke(liveUrls, customMusicUrl) \cup {url}
           /\ customMusicUrl' = url
           /\ urlCount' = urlCount + 1
    /\ UNCHANGED << mounted, isLoading, error, audioUrl, backgroundMusic, musicVolume,
                    statusMessage, cleanup, hpc, h, mixVars, fnVars >>

\* App.tsx:21-27: the cleanup of the effect with dependency list []: it revokes
\* the audioUrl and customMusicUrl of the render that registered it.
CleanupRevokes(urls) == Revoke(Revoke(urls, cleanup.audioUrl), cleanup.customMusicUrl)

Unmount ==
    /\ mounted
    /\ mounted' = FALSE
    /\ liveUrls' = CleanupRevokes(liveUrls)
    /\ UNCHANGED << isLoading, error, audioUrl, backgroundMusic, musicVolume,
                    customMusicUrl, statusMessage, urlCount, cleanup, hpc, h,
                    mixVars, fnVars >>

\* App.tsx:59
SelectedMusicUrl(bgMusic, customUrl) == IF bgMusic = "custom" THEN customUrl ELSE bgMusic

\* JavaScript truthiness of a string-or-null value.
Truthy(value) == value # Null /\ value # ""

\* App.tsx:64: the message of the inner check.
UploadMessage == "upload a custom music file"

\* A test that forgets the sentinel.
UseMixPathNoSentinel(selectedMusicUrl) == selectedMusicUrl # Null
\* A test that leaves the missing upload to the inner check.
UseMixPathNoNullTest(selectedMusicUrl) == selectedMusicUrl # "none"
\* App.tsx:62: selectedMusicUrl && selectedMusicUrl !== 'none'
UseMixPath(selectedMusicUrl) ==
    Truthy(selectedMusicUrl) /\ selectedMusicUrl # "none"

\* The device rates the App is run at.
AppRates == {44100, 48000}

\* App.tsx:43-52: the button is clicked; the handler runs up to its first await.
Generate ==
    /\ mounted /\ ~isLoading /\ hpc = "idle"
    /\ urlCount < MaxUrls
    /\ isLoading' = TRUE
    /\ error' = Null
    /\ liveUrls' = Revoke(liveUrls, audioUrl)
    /\ audioUrl' = Null
    /\ statusMessage' = "speech"
    /\ hpc' = "awaitSpeech"
    /\ h' = [HIdle EXCEPT !.backgroundMusic = backgroundMusic,
                          !.customMusicUrl = customMusicUrl,
                          !.musicVolume = musicVolume,
                          !.revoked = audioUrl]
    /\ UNCHANGED << uiVars, urlCount, mixVars, fnVars >>

\* A finally block that leaves the loading flag set.
FinallyKeepsLoading == isLoading' = TRUE /\ statusMessage' = ""
\* App.tsx:78-81
Finally == isLoading' = FALSE /\ statusMessage' = ""

\* App.tsx:75-81: catch, then finally.
HandlerCatch(hh, fault, message) ==
    /\ error' = message
    /\ Finally
    /\ hpc' = "idle"
    /\ h' = [hh EXCEPT !.errors = @ + 1, !.fault = fault, !.outcome = "failure"]
    /\ UNCHANGED << audioUrl, liveUrls, urlCount >>

\* App.tsx:72-73, 78-81: the blob is published, then finally.
HandlerPublish(hh, blob) ==
    LET url == ToString(urlCount + 1)
    IN  /\ urlCount' = urlCount + 1
        /\ liveUrls' = liveUrls \cup {url}
        /\ audioUrl' = url
        /\ Finally
        /\ hpc' = "idle"
        /\ h' = [hh EXCEPT !.blob = blob, !.outcome = "success"]
        /\ UNCHANGED error

\* App.tsx:52-70: generateMultiSpeakerSpeech settles; the handler decodes,
\* selects the path and runs to its next await or to its end. Inside the mix
\* branch the inner check of lines 63-65 throws when selectedMusicUrl is falsy.
SpeechSettles ==
    /\ hpc = "awaitSpeech"
    /\ \/ /\ HandlerCatch(h, "speech", "speech request failed")
          /\ UNCHANGED mixVars
       \/ /\ HandlerCatch(h, "empty", "Received empty audio data from the API.")
          /\ UNCHANGED mixVars
       \/ \E base64Audio \in SpeechPayloads, sampleRate \in AppRates :
             LET decoded == decode(base64Audio)
                 h1 == [h EXCEPT !.calls = << "decode" >>]
             IN  IF ~decoded.ok
                 THEN /\ HandlerCatch(h1, decoded.err, decoded.err)
                      /\ UNCHANGED mixVars
                 ELSE LET pcmData == decoded.val
                          selectedMusicUrl ==
                              SelectedMusicUrl(h.backgroundMusic, h.customMusicUrl)
                          h2 == [h1 EXCEPT !.pcmData = pcmData]
                      IN  IF UseMixPath(selectedMusicUrl) /\ ~Truthy(selectedMusicUrl)
                          THEN /\ HandlerCatch(h2, "upload", UploadMessage)
                               /\ UNCHANGED mixVars
                          ELSE IF UseMixPath(selectedMusicUrl)
                          THEN /\ statusMessage' = "mixing"
                               /\ MixEnter(1, pcmData, selectedMusicUrl, h.musicVolume,
                                           sampleRate)
                               /\ hpc' = "awaitMix"
                               /\ h' = [h2 EXCEPT !.calls = << "decode", "mixAudio" >>,
                                                  !.mixArgs = << selectedMusicUrl,
                                                                 h.musicVolume >>]
                               /\ UNCHANGED << isLoading, error, audioUrl, liveUrls,
                                               urlCount >>
                          ELSE LET wav == pcmToWav(pcmData, finalSampleRate, 1)
                                   h3 == [h2 EXCEPT !.calls = << "decode", "pcmToWav" >>,
                                                    !.wavArgs = << finalSampleRate, 1 >>]
                               IN  /\ IF wav.ok
                                      THEN HandlerPublish(h3, wav.val)
                                      ELSE HandlerCatch(h3, wav.err, wav.err)
                                   /\ UNCHANGED mixVars
    /\ UNCHANGED << uiVars, fnVars >>

\* App.tsx:67-81: the mixAudio promise settles; the handler runs to its end.
HandlerResume ==
    /\ hpc = "awaitMix"
    /\ mix[1].pc \in {"resolved", "rejected"}
    /\ LET hh == [h EXCEPT !.fault = mix[1].fault]
       IN  IF mix[1].pc = "resolved" /\ mix[1].result.ok
           THEN HandlerPublish(hh, mix[1].result.val)
           ELSE HandlerCatch(hh, mix[1].result.err, mix[1].result.err)
    /\ mix' = [mix EXCEPT ![1] = MixIdle]
    /\ bufs' = [bufs EXCEPT ![BufferOf(1)] = BufIdle]
    /\ UNCHANGED << uiVars, fnVars >>

(***************************************************************************)
(* Specifications                                                          *)
(***************************************************************************)
AppInit ==
    /\ mounted = TRUE
    /\ isLoading = FALSE
    /\ error = Null
    /\ audioUrl = Null
    /\ backgroundMusic = BACKGROUND_MUSIC_TRACKS[1]
    /\ musicVolume = DefaultVolume
    /\ customMusicUrl = Null
    /\ statusMessage = ""
    /\ liveUrls = {}
    /\ urlCount = 0
    /\ cleanup = [audioUrl |-> Null, customMusicUrl |-> Null]
    /\ hpc = "idle"
    /\ h = HIdle

MixInit ==
    /\ mix = [c \in CallIds |-> MixIdle]
    /\ bufs = [c \in CallIds |-> BufIdle]

FnInit == enc = EncIdle /\ conv = ConvIdle /\ clip = ClipIdle

SpeechSamples == {-32768, 16384}
\* Decoded music samples, in 65536ths.
MusicSamples == << Float(-30001, -MusicGrid), FZero, Float(21854, -MusicGrid) >>

ConcSpeeches == {Uint8Of(Int16Bytes(s)) : s \in SeqsUpTo(SpeechSamples, MaxConcFrames)}
ConcMusics == MonoMusics(MusicSamples, MaxConcFrames)
ConcVolumes == {DefaultVolume, MaxVolume}
ConcRates == {48000}

\* Speech arrays of every length, each the whole of its buffer as decode
\* returns it.
RenderSpeeches ==
    {Uint8Of(Int16Bytes([i \in 1..n |-> IF i % 2 = 1 THEN 16384 ELSE -32768])) :
        n \in 1..MaxFrames}
RenderMusics ==
    MonoMusics(MusicSamples, MaxMusicFrames)
    \cup StereoMusics(MusicSamples, MaxMusicFrames)
    \cup QuadMusics(MusicSamples, 2)

\* The App: one component, one handleGenerateAudio invocation at a time.
Init == AppInit /\ MixInit /\ FnInit

Next ==
    \/ SelectMusic
    \/ SetVolume
    \/ handleMusicUpload
    \/ Unmount
    \/ Generate
    \/ SpeechSettles
    \/ MixFetchSettles(1)
    \/ MixBodySettles(1)
    \/ MixDecodeSettles(1, ConcMusics)
    \/ MixRenderSettles(1)
    \/ MixCloseSettles(1)
    \/ HandlerResume

Spec == Init /\ [][Next]_vars

\* The steps that wait only for work done on the machine (reading an Object
\* URL, audio decoding, offline rendering, closing the context, the handler's
\* continuation) are taken once enabled; the steps that wait for the network
\* carry no such guarantee, the code arming no timer and no abort signal for
\* them. The closing step is enabled exactly while the call is at its last
\* await, so that its weak fairness is that the call is again and again not
\* there.
LocalFetch(c) == mix[c].musicUrl \in ObjectUrls

LiveSpec ==
    /\ Spec
    /\ WF_vars(LocalFetch(1) /\ MixFetchSettles(1))
    /\ WF_vars(LocalFetch(1) /\ MixBodySettles(1))
    /\ WF_vars(MixDecodeSettles(1, ConcMusics))
    /\ WF_vars(MixRenderSettles(1))
    /\ []<>(mix[1].pc # "awaitClose")
    /\ WF_vars(HandlerResume)

\* pcmToWav on its own.
InitWav ==
    /\ AppInit /\ MixInit /\ conv = ConvIdle /\ clip = ClipIdle
    /\ \E pcmData \in PcmArrays, sampleRate \in WavRates, numChannels \in WavChannels :
          enc = [EncIdle EXCEPT !.pcmData = pcmData, !.sampleRate = sampleRate,
                                !.numChannels = numChannels]
NextWav == EncodeWav
SpecWav == InitWav /\ [][NextWav]_vars

\* The two sample conversions composed, over every int16 value.
InitRoundTrip ==
    /\ AppInit /\ MixInit /\ enc = EncIdle /\ clip = ClipIdle
    /\ \E s \in Int16Range : conv = [ConvIdle EXCEPT !.s = s]
NextRoundTrip == RoundTrip
SpecRoundTrip == InitRoundTrip /\ [][NextRoundTrip]_vars

\* One mixed sample converted to int16.
InitClip ==
    /\ AppInit /\ MixInit /\ enc = EncIdle /\ conv = ConvIdle
    /\ \E speech \in ClipSpeech, music \in ClipMusic, volume \in Volumes :
          clip = [ClipIdle EXCEPT !.speech = speech, !.music = music,
                                  !.musicVolume = volume]
NextClip == MixSample
SpecClip == InitClip /\ [][NextClip]_vars

\* One mixAudio call over speech and music of every length up to the bounds.
NextRender ==
    \/ MixInvoke(1, RenderSpeeches, {"track1"}, AppVolumes, ContextRates)
    \/ MixFetchSettles(1)
    \/ MixBodySettles(1)
    \/ MixDecodeSettles(1, RenderMusics)
    \/ MixRenderSettles(1)
    \/ MixCloseSettles(1)
SpecRender == Init /\ [][NextRender]_vars

\* Two mixAudio calls in flight together.
NextConc ==
    \E c \in CallIds :
        \/ MixInvoke(c, ConcSpeeches, {"track1"}, ConcVolumes, ConcRates)
        \/ MixFetchSettles(c)
        \/ MixBodySettles(c)
        \/ MixDecodeSettles(c, ConcMusics)
        \/ MixRenderSettles(c)
        \/ MixCloseSettles(c)
SpecConc == Init /\ [][NextConc]_vars

(***************************************************************************)
(* Properties                                                              *)
(***************************************************************************)
PathChosen == Len(h.calls) = 2
NoMusicSelected ==
    \/ h.backgroundMusic = "none"
    \/ h.backgroundMusic = "custom" /\ h.customMusicUrl = Null

\* C1: path selection in handleGenerateAudio. While a call runs, the selection
\* and volume it uses are the current ones; once the speech is decoded, the
\* handler has called pcmToWav(pcmData, 24000, 1) and not mixAudio exactly when
\* no music is selected or the selection is 'none', and otherwise it has called
\* mixAudio with the selected source and the current volume and has not called
\* pcmToWav itself.
C1_PathSelection ==
    /\ hpc # "idle" =>
          /\ h.backgroundMusic = backgroundMusic
          /\ h.customMusicUrl = customMusicUrl
          /\ h.musicVolume = musicVolume
    /\ PathChosen =>
          IF NoMusicSelected
          THEN /\ h.calls = << "decode", "pcmToWav" >>
               /\ h.wavArgs = << 24000, 1 >>
               /\ h.mixArgs = << Null, 0 >>
          ELSE /\ h.calls = << "decode", "mixAudio" >>
               /\ h.mixArgs = << IF h.backgroundMusic = "custom"
                                 THEN h.customMusicUrl ELSE h.backgroundMusic,
                                 h.musicVolume >>
               /\ h.wavArgs = << 0, 0 >>
C1_Witness ==
    /\ hpc = "awaitMix"
    /\ h.backgroundMusic = "custom"
    /\ h.mixArgs = << customMusicUrl, MaxVolume >>

\* C2: no partial output on failure. A failure answered to a mixAudio call
\* rejects that call at that step, and a handleGenerateAudio call in which
\* any step failed ends with no blob, audioUrl null and one error set.
C2_NoPartialOutput ==
    /\ mix[1].fault # "" => mix[1].pc = "rejected" /\ ~mix[1].result.ok
    /\ (hpc = "idle" /\ h.fault # "") =>
          /\ h.outcome = "failure"
          /\ h.blob = <<>>
          /\ audioUrl = Null
          /\ audioUrl \notin liveUrls
          /\ h.errors = 1
          /\ error # Null
C2_Witness ==
    /\ hpc = "idle"
    /\ h.calls = << "decode", "mixAudio" >>
    /\ h.fault = "Failed to fetch"
    /\ error = "Failed to fetch"
    /\ audioUrl = Null

WavLayout(blob, samples, sampleRate, numChannels) ==
    LET count == Len(samples) \div 2
        dataSize == count * 2
    IN  /\ Len(blob) = 44 + count * 2
        /\ SubSeq(blob, 1, 4) = << 82, 73, 70, 70 >>
        /\ SubSeq(blob, 9, 12) = << 87, 65, 86, 69 >>
        /\ SubSeq(blob, 13, 16) = << 102, 109, 116, 32 >>
        /\ SubSeq(blob, 37, 40) = << 100, 97, 116, 97 >>
        /\ Field32(blob, 4) = 36 + dataSize
        /\ Field32(blob, 40) = dataSize
        /\ Field32Big(blob, 28) = BigMul(sampleRate, numChannels * 2)
        /\ Field16(blob, 32) = numChannels * 2
        /\ \A i \in 1..count :
              /\ blob[44 + 2 * i - 1] = samples[2 * i - 1]
              /\ blob[44 + 2 * i] = samples[2 * i]
              /\ Field16(blob, 44 + 2 * (i - 1)) =
                    (samples[2 * i - 1] + 256 * samples[2 * i])

\* The header values that fit their fields: BlockAlign below 2^16 and
\* ByteRate below 2^32. (ChunkSize = 36 + 2 * sample_count is below 2^32 for
\* every buffer of the model.)
FitsHeader(sampleRate, numChannels) ==
    /\ numChannels * 2 < 65536
    /\ BigMul(sampleRate, numChannels * 2).hi < 256

\* C3 as stated: the layout for every PCM16 buffer, every sampleRate > 0 and
\* every numChannels >= 1: length 44 + 2 * sample_count, the four tags,
\* ChunkSize, Subchunk2Size, ByteRate = sampleRate * numChannels * 2,
\* BlockAlign = numChannels * 2, and the samples in order from offset 44.
C3_WavLayoutAnyChannels ==
    (enc.done /\ enc.pcmData.length % 2 = 0) =>
        /\ enc.out.ok
        /\ WavLayout(enc.out.val, Elements(enc.pcmData), enc.sampleRate,
                     enc.numChannels)

\* C3: the WAV layout of pcmToWav, for every PCM16 buffer, every sampleRate > 0
\* and every numChannels >= 1 whose BlockAlign and ByteRate fit their header
\* fields (16 and 32 bits): length 44 + 2 * sample_count, the four tags,
\* ChunkSize, Subchunk2Size, ByteRate, BlockAlign, and the samples in order,
\* little-endian, from offset 44.
C3_WavLayout ==
    (enc.done /\ enc.pcmData.length % 2 = 0
       /\ FitsHeader(enc.sampleRate, enc.numChannels)) =>
        /\ enc.out.ok
        /\ WavLayout(enc.out.val, Elements(enc.pcmData), enc.sampleRate,
                     enc.numChannels)
C3_Witness ==
    /\ enc.done /\ enc.out.ok
    /\ enc.pcmData = Uint8Of(<< 1, 128, 255, 128 >>)
    /\ enc.sampleRate = 48000 /\ enc.numChannels = 32767
    /\ Len(enc.out.val) = 48
    /\ Field16(enc.out.val, 32) = 65534

\* C4 as stated: the round trip returns every int16 value unchanged.
C4_RoundTripExact == conv.done => conv.out = conv.s

\* C4: the round trip s -> s / 32768 -> int16 returns s for every s <= 0 and
\* s - 1 for every s in 1..32767.
C4_RoundTrip ==
    conv.done => conv.out = IF conv.s > 0 THEN conv.s - 1 ELSE conv.s
C4_Witness == conv.done /\ conv.s = 32767 /\ conv.out = 32766

\* f >= 1.0, f <= -1.0
AtLeastOne(f) == f.m > 0 /\ Top(f) >= 0
AtMostMinusOne(f) == f.m < 0 /\ Top(f) >= 0
\* |f| * k < 1, for k = 2^15 or 2^15 - 1
ScalesBelowOne(f, k) ==
    \/ f.m = 0
    \/ Top(f) < -15
    \/ /\ Top(f) = -15
       /\ BigLess(BigMul(Abs(f.m), k), BigShl(BigOf(1), -f.e))

ClipRange ==
    /\ clip.out \in (-32768)..32767
    /\ AtLeastOne(clip.mixed) => clip.out = 32767
    /\ AtMostMinusOne(clip.mixed) => clip.out = -32768

\* C5 as stated: range, clamping, and the output's sign equal to the input's.
C5_ClipSameSign ==
    clip.done => ClipRange /\ Sgn(clip.out) = Sgn(clip.mixed.m)

\* C5: clipping in audioBufferToPcm. The integer lies in -32768..32767, every
\* value >= 1.0 gives 32767 and every value <= -1.0 gives -32768, and the
\* output never has the sign opposite to the input's: it has the input's sign,
\* or is 0 for an input nearer to zero than one integer step.
C5_Clip ==
    clip.done =>
        /\ ClipRange
        /\ Sgn(clip.out) # Sgn(clip.mixed.m) =>
              /\ clip.out = 0
              /\ clip.mixed.m > 0 => ScalesBelowOne(clip.mixed, PosScale)
              /\ clip.mixed.m < 0 => ScalesBelowOne(clip.mixed, NegScale)
C5_Witness ==
    /\ clip.done
    /\ AtLeastOne(clip.mixed) /\ clip.mixed # FOne
    /\ clip.musicVolume = MaxVolume
    /\ clip.out = 32767

\* The sample of channel c of the rendered buffer at output frame i when the
\* music source gives values[k] on its channel k there: the speech sample plus
\* gain * the music; mono music on both channels, stereo music channel for
\* channel, quad music as the half sum of the front and the surround channel
\* of that side, all in float32.
SampleWith(values, c, i) ==
    LET speech == pcm16ToFloat(Int16At(mix[1].speechPcmData.buffer, i + 1))
        gained == [k \in 1..Len(values) |-> Gain(values[k], mix[1].musicVolume)]
        music == IF Len(values) = 1 THEN gained[1]
                 ELSE IF Len(values) = 4
                 THEN FMul(Float(1, -1), FAdd(gained[c], gained[c + 2]))
                 ELSE gained[c]
    IN  FAdd(speech, music)

\* Music frame k on every channel.
MusicFrame(k) ==
    [ch \in 1..Len(mix[1].served.channels) |-> mix[1].served.channels[ch][k + 1]]

OutputShape ==
    LET N == Len(mix[1].speechPcmData.buffer) \div 2
        mixed == bufs[1].mixed.channels
    IN  /\ mix[1].pc \in {"awaitClose", "resolved"} =>
              /\ Len(mixed) = 2
              /\ \A c \in 1..2 : Len(mixed[c]) = N
        /\ mix[1].pc = "resolved" =>
              /\ mix[1].result.ok
              /\ Len(mix[1].result.val) = 44 + 4 * N
              /\ Field16(mix[1].result.val, 22) = 2
              /\ Field32(mix[1].result.val, 40) = 4 * N

\* C6 as stated: the output is stereo with N frames and Subchunk2Size 4 * N,
\* and at output frame i the music contributes gain * music frame (i mod M).
C6_LoopingByFrame ==
    /\ OutputShape
    /\ mix[1].pc \in {"awaitClose", "resolved"} =>
          \A c \in 1..2 : \A i \in 0..(Len(bufs[1].mixed.channels[c]) - 1) :
              bufs[1].mixed.channels[c][i + 1] =
                  SampleWith(MusicFrame(i % Len(mix[1].served.channels[1])), c, i)

\* C6: looping and output length of mixAudio. For speech of N frames and music
\* of M >= 1 frames decoded at sample rate R, the rendered buffer is stereo
\* with N frames and the WAV is stereo with Subchunk2Size 4 * N; at output
\* frame i the music is read at buffer position (i * R / 24000) mod M, and
\* wherever i * R / 24000 is a whole number the music contributes gain * the
\* music frame at that position, which with R = 24000 is music frame
\* (i mod M) at every output frame.
C6_Looping ==
    /\ OutputShape
    /\ mix[1].pc \in {"awaitClose", "resolved"} =>
          \A c \in 1..2 : \A i \in 0..(Len(bufs[1].mixed.channels[c]) - 1) :
              /\ (i * mix[1].served.sampleRate) % finalSampleRate = 0 =>
                    bufs[1].mixed.channels[c][i + 1] =
                        SampleWith(MusicFrame(((i * mix[1].served.sampleRate)
                                                  \div finalSampleRate)
                                              % Len(mix[1].served.channels[1])), c, i)
              /\ mix[1].served.sampleRate = finalSampleRate =>
                    bufs[1].mixed.channels[c][i + 1] =
                        SampleWith(MusicFrame(i % Len(mix[1].served.channels[1])), c, i)
\* Stereo music of three frames, one of them silent, at 48000 Hz under speech
\* of four frames: output frame 2 carries music frame 1 and output frame 3
\* music frame 0 again.
C6_Witness ==
    /\ mix[1].pc = "resolved"
    /\ Len(mix[1].speechPcmData.buffer) = 8
    /\ mix[1].served.sampleRate = 48000
    /\ Len(mix[1].served.channels) = 2
    /\ Len(mix[1].served.channels[1]) = 3
    /\ mix[1].served.channels[1][3] = FZero
    /\ mix[1].musicVolume = MaxVolume
    /\ bufs[1].mixed.channels[2][3] = SampleWith(MusicFrame(1), 2, 2)
    /\ bufs[1].mixed.channels[2][3] # SampleWith(MusicFrame(2), 2, 2)
    /\ bufs[1].mixed.channels[2][4] = SampleWith(MusicFrame(0), 2, 3)

\* C7: no indefinite hang on music retrieval. A mixAudio call waiting for the
\* fetch of the music is followed by the handler settling.
C7_NoHang == (hpc = "awaitMix" /\ mix[1].pc = "awaitFetch") ~> (hpc = "idle")

\* C8: Object-URL cleanup on unmount. Once the component is unmounted, the
\* audio URL and the custom-music URL are revoked and no Object URL it created
\* is live.
C8_UnmountRevokes ==
    (~mounted /\ hpc = "idle") =>
        /\ audioUrl \notin liveUrls
        /\ customMusicUrl \notin liveUrls
        /\ liveUrls = {}

\* What call c returns when it runs alone on its arguments and on the music
\* it was served.
Alone(c) ==
    MixedWav(Render(SpeechBuffer(mix[c].speechPcmData), mix[c].served,
                    mix[c].musicVolume, mix[c].supplied))

\* C9: independence of concurrent mixAudio calls. Whatever the interleaving,
\* a call that resolves returns the blob it returns when run alone, a call
\* that rejects returns the failure answered to it, and the context a call
\* opened is closed by that call only.
C9_Independent ==
    \A c \in CallIds :
        /\ mix[c].pc = "resolved" => mix[c].result = Alone(c)
        /\ mix[c].pc = "rejected" => mix[c].result = Throw(mix[c].fault)
        /\ mix[c].tempContext = "closed" => mix[c].pc = "resolved"
C9_Witness ==
    /\ mix[1].pc = "resolved" /\ mix[2].pc = "resolved"
    /\ mix[1].overlap
    /\ mix[1].speechPcmData # mix[2].speechPcmData
    /\ mix[1].served # mix[2].served
    /\ mix[1].result # mix[2].result

\* C10: the state protocol of handleGenerateAudio. From its start and while it
\* runs, isLoading is true, error and audioUrl are null and the previous audio
\* URL is revoked; once it has settled, isLoading is false, statusMessage is
\* empty and exactly one of audioUrl and error is non-null: audioUrl after a
\* success, error after a failure.
C10_Protocol ==
    /\ hpc # "idle" =>
          /\ isLoading /\ error = Null /\ audioUrl = Null
          /\ h.revoked \notin liveUrls
    /\ (hpc = "idle" /\ h.outcome # "none") =>
          /\ ~isLoading /\ statusMessage = ""
          /\ (audioUrl # Null) # (error # Null)
          /\ (h.outcome = "success") = (audioUrl # Null)
C10_Witness ==
    /\ hpc = "idle" /\ h.outcome = "failure"
    /\ h.revoked # Null
    /\ mounted
    /\ error # Null /\ audioUrl = Null /\ ~isLoading

CustomWithoutUpload == h.backgroundMusic = "custom" /\ h.customMusicUrl = Null

\* C11: custom selection without an uploaded file. The upload error of the
\* inner check is never raised in any execution; a call started with
\* backgroundMusic 'custom' and customMusicUrl null never calls mixAudio, and
\* once its speech is decoded it has taken the direct path; for a payload of
\* whole 16-bit samples it ends without error with the mono 24000 Hz WAV of
\* the speech bytes.
C11_CustomWithoutUpload ==
    /\ error # UploadMessage
    /\ h.fault # "upload"
    /\ (CustomWithoutUpload /\ h.outcome # "none") =>
          /\ hpc = "idle"
          /\ h.mixArgs = << Null, 0 >>
          /\ mix[1].pc = "idle"
          /\ (h.calls # <<>> /\ h.fault # "InvalidCharacterError") =>
                /\ h.calls = << "decode", "pcmToWav" >>
                /\ h.wavArgs = << 24000, 1 >>
                /\ Len(h.pcmData.buffer) % 2 = 0 =>
                      /\ h.outcome = "success"
                      /\ h.errors = 0
                      /\ error = Null
                      /\ audioUrl # Null
                      /\ Len(h.blob) = 44 + Len(h.pcmData.buffer)
                      /\ Field16(h.blob, 22) = 1
                      /\ Field32(h.blob, 24) = 24000
                      /\ Field32(h.blob, 40) = Len(h.pcmData.buffer)
                      /\ SubSeq(h.blob, 45, Len(h.blob)) = h.pcmData.buffer
C11_Witness ==
    /\ hpc = "idle"
    /\ CustomWithoutUpload
    /\ backgroundMusic = "custom" /\ customMusicUrl = Null
    /\ h.outcome = "success"
    /\ Len(h.pcmData.buffer) = 4
    /\ error = Null

====
